---------------------------- MODULE Spec2Model ----------------------------
(***************************************************************************)
(* A model of find_unpadded_sequences.py: the sequence analyzer            *)
(* (analyze_dir), the rename planner (make_new_name and the rename mode of *)
(* main) and the two-phase rename executor (perform_renames).              *)
(*                                                                         *)
(* A file name is a sequence of character codes (ASCII), so that           *)
(* lexicographic order, digit runs, stems and suffixes are computed as the *)
(* code computes them.  A path is <<directory, name>>.  The file system is *)
(* a function from the paths that exist to the content stored there; a     *)
(* file's content is identified by the path it had in the initial state.   *)
(***************************************************************************)
EXTENDS Integers, Sequences, FiniteSets, TLC

VARIABLES
    fs,          \* file system: existing path |-> content
    dirs,        \* directories that exist
    args,        \* main's parsed command line
    results,     \* find_problem_dirs' reports, in scan order
    mapping,     \* perform_renames' mapping: sequence of <<src, dst>>
    dry_run,     \* perform_renames' dry_run argument
    force,       \* perform_renames' force argument
    pc,          \* control point
    temp_map,    \* perform_renames' temp_map: sequence of <<temp, dst>>
    succeeded,   \* perform_renames' succeeded counter
    failed,      \* perform_renames' failed counter
    ret,         \* what perform_renames gave back: returned counts or raised
    exitcode,    \* main's return value (-1 while running)
    uuids,       \* number of uuid4 values drawn so far
    hist         \* history: facts about the run the claims speak of

vars == <<fs, dirs, args, results, mapping, dry_run, force, pc, temp_map,
          succeeded, failed, ret, exitcode, uuids, hist>>

(***************************************************************************)
(* Bounds of the model.                                                    *)
(***************************************************************************)
MaxNameLen == 3      \* longest file name of the single-directory inputs
MaxTreeFiles == 5    \* most files of a tree input (root and two subdirectories)
MaxMap == 2          \* longest mapping handed directly to perform_renames

(***************************************************************************)
(* Characters.                                                             *)
(***************************************************************************)
Dot == 46            \* '.'
NoWidth == -1        \* args.width is None

IsDigit(c) == c \in 48..57

\* The text ".renametmp-" + uuid4().hex of a temporary name: the dot, one
\* code standing for "renametmp-" and one standing for the k-th uuid drawn.
TempSuffix(k) == <<Dot, 114, 1000 + k>>

IsTempName(name) == Len(name) >= 3 /\ name[Len(name)] >= 1000

(***************************************************************************)
(* Sequences and orders.                                                   *)
(***************************************************************************)
Range(s) == {s[k] : k \in 1..Len(s)}

\* Python's str comparison: by code point, a proper prefix first.
RECURSIVE StrLess(_, _)
StrLess(a, b) ==
    IF a = <<>> THEN b # <<>>
    ELSE IF b = <<>> THEN FALSE
    ELSE IF a[1] # b[1] THEN a[1] < b[1]
    ELSE StrLess(Tail(a), Tail(b))

\* sorted(S) for a set of strings
SortStr(S) ==
    [k \in 1..Cardinality(S) |->
        CHOOSE x \in S : Cardinality({y \in S : StrLess(y, x)}) = k - 1]

\* sorted(S) for a set of integers
SortInt(S) ==
    [k \in 1..Cardinality(S) |->
        CHOOSE x \in S : Cardinality({y \in S : y < x}) = k - 1]

\* Python's tuple comparison of (int, str) keys
KeyLess(a, b) == a[1] < b[1] \/ (a[1] = b[1] /\ StrLess(a[2], b[2]))

\* s[:n]
Take(s, n) == SubSeq(s, 1, IF Len(s) < n THEN Len(s) ELSE n)

(***************************************************************************)
(* pathlib: name, stem, suffix.                                            *)
(***************************************************************************)
\* name.rfind('.') as a 1-based position, 0 when there is no dot.
RFindDot(name) ==
    LET ds == {k \in 1..Len(name) : name[k] = Dot}
    IN  IF ds = {} THEN 0 ELSE CHOOSE k \in ds : \A j \in ds : j <= k

\* PurePath.suffix: the last dot and what follows, unless the dot is the
\* first or the last character.
Suffix(name) ==
    LET k == RFindDot(name)
    IN  IF 1 < k /\ k < Len(name) THEN SubSeq(name, k, Len(name)) ELSE <<>>

\* PurePath.stem
Stem(name) ==
    LET k == RFindDot(name)
    IN  IF 1 < k /\ k < Len(name) THEN SubSeq(name, 1, k - 1) ELSE name

\* Path.resolve(): the model's paths are absolute and free of symlinks and
\* of "..", so a path is its own resolved form.
resolve(p) == p

(***************************************************************************)
(* extract_number_token                                                    *)
(***************************************************************************)
\* int(s) of a digit string
RECURSIVE IntOf(_)
IntOf(s) ==
    IF s = <<>> THEN 0
    ELSE 10 * IntOf(SubSeq(s, 1, Len(s) - 1)) + (s[Len(s)] - 48)

\* len(str(n)) for n >= 0
RECURSIVE StrLen(_)
StrLen(n) == IF n < 10 THEN 1 ELSE 1 + StrLen(n \div 10)

\* The span [first, last] of NUM_RE.findall(s)[-1], the last maximal digit
\* run of s; <<0, 0>> when s holds no digit.
LastRun(s) ==
    LET ds == {k \in 1..Len(s) : IsDigit(s[k])}
    IN  IF ds = {} THEN <<0, 0>>
        ELSE LET last == CHOOSE k \in ds : \A j \in ds : j <= k
                 first == CHOOSE k \in 1..last :
                              /\ \A j \in k..last : IsDigit(s[j])
                              /\ (k = 1 \/ ~IsDigit(s[k - 1]))
             IN  <<first, last>>

HasToken(s) == LastRun(s)[1] # 0

Token(s) == SubSeq(s, LastRun(s)[1], LastRun(s)[2])

\* extract_number_token(name): <<int value, token>>, <<>> for None.
extract_number_token(name) ==
    IF ~HasToken(name) THEN <<>> ELSE <<IntOf(Token(name)), Token(name)>>

(***************************************************************************)
(* The directory tree: a root holding subdirectories; every entry of fs is *)
(* a regular file.                                                         *)
(***************************************************************************)
Root == 0

\* d.iterdir(), the files among it
FilesIn(f, d) == {p \in DOMAIN f : p[1] = d}

\* the subdirectories d.iterdir() yields
SubDirs(ds, d) == IF d = Root THEN ds \ {Root} ELSE {}

\* is_leaf_dir
is_leaf_dir(f, ds, d) ==
    /\ d \in ds
    /\ \A sub \in SubDirs(ds, d) : FilesIn(f, sub) = {}

(***************************************************************************)
(* analyze_dir                                                             *)
(***************************************************************************)
IsHidden(name) == name # <<>> /\ name[1] = Dot

\* [p for p in sorted(d.iterdir()) if p.is_file() and not p.name.startswith('.')]
ListFiles(f, d) ==
    LET names == {p[2] : p \in {q \in FilesIn(f, d) : ~IsHidden(q[2])}}
        sorted == SortStr(names)
    IN  [k \in 1..Len(sorted) |-> <<d, sorted[k]>>]

\* the loop that builds entries: <<path, int value, token>> of every file
\* whose stem holds a digit run, in the order of files
RECURSIVE Entries(_)
Entries(files) ==
    IF files = <<>> THEN <<>>
    ELSE LET p == Head(files)
             res == extract_number_token(Stem(p[2]))
         IN  (IF res = <<>> THEN <<>> ELSE <<<<p, res[1], res[2]>>>>)
             \o Entries(Tail(files))

\* [e[0].name for e in sorted(entries, key=lambda x: x[0].name)]
LexOrder(entries) == SortStr({e[1][2] : e \in Range(entries)})

\* [e[0].name for e in sorted(entries, key=lambda x: (x[1], x[0].name))]
NumericOrder(entries) ==
    LET keys == {<<e[2], e[1][2]>> : e \in Range(entries)}
    IN  [k \in 1..Cardinality(keys) |->
            (CHOOSE x \in keys :
                Cardinality({y \in keys : KeyLess(y, x)}) = k - 1)[2]]

MinOf(S) == CHOOSE x \in S : \A y \in S : x <= y
MaxOf(S) == CHOOSE x \in S : \A y \in S : y <= x

\* consecutive = (expected_count == len(unique_nums)
\*                and unique_nums == list(range(min_n, max_n + 1)))
Consecutive(nums) ==
    LET min_n == MinOf(Range(nums))
        max_n == MaxOf(Range(nums))
        expected_count == max_n - min_n + 1
        unique_nums == SortInt(Range(nums))
    IN  /\ expected_count = Len(unique_nums)
        /\ unique_nums = [k \in 1..expected_count |-> min_n + k - 1]

\* a slip: the common length is not compared with the desired width
FullyPadded_uniform(token_lengths, desired_width) ==
    Cardinality(Range(token_lengths)) = 1

\* fully_padded = (len(set(token_lengths)) == 1
\*                 and token_lengths[0] == desired_width)
FullyPadded(token_lengths, desired_width) ==
    /\ Cardinality(Range(token_lengths)) = 1
    /\ token_lengths[1] = desired_width

SampleLen == 10

\* analyze_dir(d, min_files): <<report>>, or <<>> for None
analyze_dir(f, d, min_files) ==
    LET files == ListFiles(f, d)
        entries == Entries(files)
    IN  IF Len(files) < min_files THEN <<>>
        ELSE IF Len(entries) < min_files THEN <<>>
        ELSE LET lex_order == LexOrder(entries)
                 numeric_order == NumericOrder(entries)
                 nums == [k \in 1..Len(entries) |-> entries[k][2]]
                 min_n == MinOf(Range(nums))
                 max_n == MaxOf(Range(nums))
                 token_lengths == [k \in 1..Len(entries) |-> Len(entries[k][3])]
                 desired_width == StrLen(max_n)
             IN  IF ~Consecutive(nums) THEN <<>>
                 ELSE IF lex_order # numeric_order
                         /\ ~FullyPadded(token_lengths, desired_width)
                 THEN << [dir |-> d,
                          count |-> Len(entries),
                          min |-> min_n,
                          max |-> max_n,
                          desired_width |-> desired_width,
                          token_lengths_sample |-> SortInt(Range(token_lengths)),
                          lex_order_sample |-> Take(lex_order, SampleLen),
                          numeric_order_sample |-> Take(numeric_order, SampleLen)] >>
                 ELSE <<>>

\* find_problem_dirs: the root, then its subdirectories (in the order of
\* their identifiers); every leaf directory is analysed.
RECURSIVE ScanDirs(_, _, _, _)
ScanDirs(f, ds, order, min_files) ==
    IF order = <<>> THEN <<>>
    ELSE (IF is_leaf_dir(f, ds, Head(order))
          THEN analyze_dir(f, Head(order), min_files) ELSE <<>>)
         \o ScanDirs(f, ds, Tail(order), min_files)

find_problem_dirs(f, ds, min_files) ==
    IF Root \in ds
    THEN ScanDirs(f, ds, <<Root>> \o SortInt(SubDirs(ds, Root)), min_files)
    ELSE <<>>

(***************************************************************************)
(* make_new_name and the rename mode's planning                            *)
(***************************************************************************)
\* str.zfill(width) of a digit string
RECURSIVE zfill(_, _)
zfill(s, width) == IF Len(s) >= width THEN s ELSE zfill(<<48>> \o s, width)

\* make_new_name(old, width)
make_new_name(old, width) ==
    LET name == old[2]
        stem == Stem(name)
        run == LastRun(stem)
    IN  IF run[1] = 0 THEN old
        ELSE LET padded == zfill(SubSeq(stem, run[1], run[2]), width)
                 new_stem == SubSeq(stem, 1, run[1] - 1) \o padded
                             \o SubSeq(stem, run[2] + 1, Len(stem))
             IN  <<old[1], new_stem \o Suffix(name)>>

\* the mappings main builds for one flagged directory
RECURSIVE MappingsOf(_, _)
MappingsOf(entries, width) ==
    IF entries = <<>> THEN <<>>
    ELSE LET src == Head(entries)[1]
             dst == make_new_name(src, width)
         IN  (IF resolve(src) # resolve(dst) THEN <<<<src, dst>>>> ELSE <<>>)
             \o MappingsOf(Tail(entries), width)

PlanDir(f, d, width_arg) ==
    LET entries == Entries(ListFiles(f, d))
    IN  IF entries = <<>> THEN <<>>
        ELSE LET max_n == MaxOf({e[2] : e \in Range(entries)})
                 width == IF width_arg # NoWidth THEN width_arg ELSE StrLen(max_n)
             IN  MappingsOf(entries, width)

\* all_mappings: the mappings of every report's directory, in report order
RECURSIVE PlanAll(_, _, _)
PlanAll(f, reports, width_arg) ==
    IF reports = <<>> THEN <<>>
    ELSE PlanDir(f, Head(reports).dir, width_arg)
         \o PlanAll(f, Tail(reports), width_arg)

(***************************************************************************)
(* perform_renames                                                         *)
(***************************************************************************)
\* dsts = [dst for _src, dst in mapping]
Dsts(m) == [k \in 1..Len(m) |-> m[k][2]]

\* srcs = set([src.resolve() for src, _ in mapping])
Srcs(m) == {resolve(m[k][1]) : k \in 1..Len(m)}

\* a slip: the sources are compared instead of the destinations
DuplicateDsts_srcs(m) == Len(m) # Cardinality(Srcs(m))

\* len(dsts) != len(set(dsts))
DuplicateDsts(m) == Len(Dsts(m)) # Cardinality(Range(Dsts(m)))

\* a slip: "in srcs" for "not in srcs"
Clobbers_in(f, m, frc, dst) ==
    /\ dst \in DOMAIN f
    /\ resolve(dst) \in Srcs(m)
    /\ ~frc

\* dst.exists() and dst.resolve() not in srcs and not force
Clobbers(f, m, frc, dst) ==
    /\ dst \in DOMAIN f
    /\ resolve(dst) \notin Srcs(m)
    /\ ~frc

\* the pre-flight loop raises for some entry
ExistingDst(f, m, frc) == \E k \in 1..Len(m) : Clobbers(f, m, frc, m[k][2])

\* a slip: the file is copied, the source stays
Rename_copy(f, src, dst) ==
    [p \in DOMAIN f \cup {dst} |-> IF p = dst THEN f[src] ELSE f[p]]

\* os.rename(src, dst) that succeeds: dst now holds what src held, replacing
\* whatever dst held; renaming a file onto itself changes nothing.
Rename(f, src, dst) ==
    [p \in (DOMAIN f \ {src}) \cup {dst} |-> IF p = dst THEN f[src] ELSE f[p]]

\* a slip: one fixed temporary name per directory, no uuid
TempOf_fixed(src, k) == <<src[1], TempSuffix(0)>>

\* src.with_name(src.name + f".renametmp-{uuid.uuid4().hex}")
TempOf(src, k) == <<src[1], src[2] \o TempSuffix(k)>>

\* a slip: every entry is counted as failed
FailedCount_all(m, s) == Len(m)

\* failed = len(mapping) - succeeded
FailedCount(m, s) == Len(m) - s

Counts(s, f) == [raised |-> FALSE, value |-> <<s, f>>]
Raised == [raised |-> TRUE, value |-> <<0, 0>>]
NoRet == [raised |-> FALSE, value |-> <<-1, -1>>]

\* raise RuntimeError("Duplicate destination filenames detected; ...")
RaiseDuplicate ==
    /\ pc = "call"
    /\ DuplicateDsts(mapping)
    /\ pc' = "raised"
    /\ ret' = Raised
    /\ UNCHANGED <<fs, dirs, args, results, mapping, dry_run, force, temp_map,
                   succeeded, failed, exitcode, uuids, hist>>

\* raise RuntimeError(f"Destination {dst} already exists and --force not given")
RaiseExisting ==
    /\ pc = "call"
    /\ ~DuplicateDsts(mapping)
    /\ ExistingDst(fs, mapping, force)
    /\ pc' = "raised"
    /\ ret' = Raised
    /\ UNCHANGED <<fs, dirs, args, results, mapping, dry_run, force, temp_map,
                   succeeded, failed, exitcode, uuids, hist>>

\* if dry_run: print the mapping; return 0, 0
DryRunReturn ==
    /\ pc = "call"
    /\ ~DuplicateDsts(mapping)
    /\ ~ExistingDst(fs, mapping, force)
    /\ dry_run
    /\ pc' = "returned"
    /\ ret' = Counts(0, 0)
    /\ UNCHANGED <<fs, dirs, args, results, mapping, dry_run, force, temp_map,
                   succeeded, failed, exitcode, uuids, hist>>

\* a slip: the dry_run test is missing
StartRenames_live ==
    /\ pc = "call"
    /\ ~DuplicateDsts(mapping)
    /\ ~ExistingDst(fs, mapping, force)
    /\ pc' = "phase1"
    /\ temp_map' = <<>>
    /\ UNCHANGED <<fs, dirs, args, results, mapping, dry_run, force,
                   succeeded, failed, ret, exitcode, uuids, hist>>

\* the checks passed and dry_run is unset: temp_map = []; enter the try block
StartRenames ==
    /\ pc = "call"
    /\ ~DuplicateDsts(mapping)
    /\ ~ExistingDst(fs, mapping, force)
    /\ ~dry_run
    /\ pc' = "phase1"
    /\ temp_map' = <<>>
    /\ UNCHANGED <<fs, dirs, args, results, mapping, dry_run, force,
                   succeeded, failed, ret, exitcode, uuids, hist>>

\* phase 1, one iteration: src.rename(temp); temp_map.append((temp, dst))
Phase1Rename ==
    /\ pc = "phase1"
    /\ Len(temp_map) < Len(mapping)
    /\ LET src == mapping[Len(temp_map) + 1][1]
           dst == mapping[Len(temp_map) + 1][2]
           temp == TempOf(src, uuids + 1)
       IN  /\ src \in DOMAIN fs
           /\ fs' = Rename(fs, src, temp)
           /\ temp_map' = Append(temp_map, <<temp, dst>>)
    /\ uuids' = uuids + 1
    /\ UNCHANGED <<dirs, args, results, mapping, dry_run, force, pc,
                   succeeded, failed, ret, exitcode, hist>>

\* phase 1, one iteration whose src.rename(temp) raises (the source does not
\* exist, or the operating system refuses): the except block returns
\* succeeded, len(mapping) - succeeded.
Phase1Raise ==
    /\ pc = "phase1"
    /\ Len(temp_map) < Len(mapping)
    /\ uuids' = uuids + 1
    /\ failed' = FailedCount(mapping, succeeded)
    /\ ret' = Counts(succeeded, failed')
    /\ pc' = "returned"
    /\ hist' = [hist EXCEPT !.oserror = TRUE,
                            !.fault = mapping[Len(temp_map) + 1][1] \in DOMAIN fs]
    /\ UNCHANGED <<fs, dirs, args, results, mapping, dry_run, force, temp_map,
                   succeeded, exitcode>>

\* the first loop is over
Phase1Done ==
    /\ pc = "phase1"
    /\ Len(temp_map) = Len(mapping)
    /\ pc' = "phase2"
    /\ UNCHANGED <<fs, dirs, args, results, mapping, dry_run, force, temp_map,
                   succeeded, failed, ret, exitcode, uuids, hist>>

\* phase 2, one iteration: the defensive re-check (which raises into the
\* except block), dst.parent.mkdir(parents=True, exist_ok=True),
\* temp.rename(dst), succeeded += 1
Phase2Rename ==
    /\ pc = "phase2"
    /\ succeeded < Len(temp_map)
    /\ LET temp == temp_map[succeeded + 1][1]
           dst == temp_map[succeeded + 1][2]
       IN  IF Clobbers(fs, mapping, force, dst)
           THEN /\ failed' = FailedCount(mapping, succeeded)
                /\ ret' = Counts(succeeded, failed')
                /\ pc' = "returned"
                /\ UNCHANGED <<fs, dirs, succeeded>>
           ELSE /\ temp \in DOMAIN fs
                /\ dirs' = dirs \cup {dst[1]}
                /\ fs' = Rename(fs, temp, dst)
                /\ succeeded' = succeeded + 1
                /\ UNCHANGED <<failed, ret, pc>>
    /\ UNCHANGED <<args, results, mapping, dry_run, force, temp_map, exitcode,
                   uuids, hist>>

\* phase 2, one iteration in which mkdir or temp.rename(dst) raises: the
\* except block returns succeeded, len(mapping) - succeeded.  The parent
\* directory was made when it is the rename that raises.
Phase2Raise ==
    /\ pc = "phase2"
    /\ succeeded < Len(temp_map)
    /\ LET dst == temp_map[succeeded + 1][2]
       IN  /\ ~Clobbers(fs, mapping, force, dst)
           /\ dirs' \in {dirs, dirs \cup {dst[1]}}
    /\ failed' = FailedCount(mapping, succeeded)
    /\ ret' = Counts(succeeded, failed')
    /\ pc' = "returned"
    /\ hist' = [hist EXCEPT !.oserror = TRUE, !.fault = TRUE]
    /\ UNCHANGED <<fs, args, results, mapping, dry_run, force, temp_map,
                   succeeded, exitcode, uuids>>

\* the second loop is over: return succeeded, failed
Phase2Done ==
    /\ pc = "phase2"
    /\ succeeded = Len(temp_map)
    /\ ret' = Counts(succeeded, failed)
    /\ pc' = "returned"
    /\ UNCHANGED <<fs, dirs, args, results, mapping, dry_run, force, temp_map,
                   succeeded, failed, exitcode, uuids, hist>>

PerformRenames ==
    \/ RaiseDuplicate
    \/ RaiseExisting
    \/ DryRunReturn
    \/ StartRenames
    \/ Phase1Rename
    \/ Phase1Raise
    \/ Phase1Done
    \/ Phase2Rename
    \/ Phase2Raise
    \/ Phase2Done

(***************************************************************************)
(* Inputs                                                                  *)
(***************************************************************************)
\* the subsets of S with at most n elements
RECURSIVE UpTo(_, _)
UpTo(S, n) ==
    IF n = 0 THEN {{}}
    ELSE LET smaller == UpTo(S, n - 1)
         IN  smaller \cup {T \cup {x} : T \in smaller, x \in S}

\* the sequences over S with at most n elements
RECURSIVE SeqsUpTo(_, _)
SeqsUpTo(S, n) ==
    IF n = 0 THEN {<<>>}
    ELSE LET shorter == SeqsUpTo(S, n - 1)
         IN  shorter \cup {Append(s, x) : s \in shorter, x \in S}

\* a file system holding the files F, each with its own content
FsOf(F) == [p \in F |-> p]

NoArgs ==
    [json |-> FALSE, rename |-> FALSE, width |-> NoWidth, dry_run |-> FALSE,
     force |-> FALSE, min_files |-> 2]

\* hist.init: the initial file system; hist.entry: the file system and the
\* directories when the current perform_renames call began; hist.calls: the
\* calls begun; hist.oserror: a rename raised in the current call;
\* hist.fault: a rename raised although its source existed; hist.prev: how
\* the previous call ended; hist.scan: the reports of main's scan.
NoHist(f, ds) ==
    [init |-> f, entry |-> [fs |-> f, dirs |-> ds], calls |-> 1,
     oserror |-> FALSE, fault |-> FALSE, prev |-> <<>>, scan |-> <<>>]

\* The file names of the tree inputs: "a9.j", "a09.j", "a10.j", "a010.j".
TreeNames ==
    {<<97, 57, Dot, 106>>, <<97, 48, 57, Dot, 106>>, <<97, 49, 48, Dot, 106>>,
     <<97, 48, 49, 48, Dot, 106>>}

\* The paths of the mappings handed directly to perform_renames: "a9.j" and
\* "a09.j" in directory 1 and in directory 2 (which may not exist yet).
CallPaths == {1, 2} \X {<<97, 57, Dot, 106>>, <<97, 48, 57, Dot, 106>>}

\* perform_renames is called with any mapping over CallPaths of at most
\* MaxMap entries, any flags, on any file system over CallPaths.
Init ==
    /\ dirs \in {{Root, 1}, {Root, 1, 2}}
    /\ fs \in {FsOf(F) : F \in SUBSET {p \in CallPaths : p[1] \in dirs}}
    /\ mapping \in SeqsUpTo(CallPaths \X CallPaths, MaxMap)
    /\ dry_run \in BOOLEAN
    /\ force \in BOOLEAN
    /\ pc = "call"
    /\ temp_map = <<>>
    /\ succeeded = 0
    /\ failed = 0
    /\ ret = NoRet
    /\ uuids = 0
    /\ args = NoArgs
    /\ results = <<>>
    /\ exitcode = -1
    /\ hist = NoHist(fs, dirs)

\* a live perform_renames call has ended and the caller executes the same
\* mapping a second time, live again, with --force or without
CallAgain ==
    /\ pc \in {"returned", "raised"}
    /\ hist.calls = 1
    /\ ~dry_run
    /\ pc' = "call"
    /\ dry_run' = FALSE
    /\ force' \in BOOLEAN
    /\ temp_map' = <<>>
    /\ succeeded' = 0
    /\ failed' = 0
    /\ ret' = NoRet
    /\ hist' = [hist EXCEPT !.calls = @ + 1,
                            !.entry = [fs |-> fs, dirs |-> dirs],
                            !.oserror = FALSE,
                            !.fault = FALSE,
                            !.prev = <<[pc |-> pc, ret |-> ret, fs |-> fs,
                                        dry_run |-> dry_run,
                                        oserror |-> hist.oserror]>>]
    /\ UNCHANGED <<fs, dirs, args, results, mapping, exitcode, uuids>>

Next == PerformRenames \/ CallAgain

Spec == Init /\ [][Next]_vars

(***************************************************************************)
(* main                                                                    *)
(***************************************************************************)
\* results = find_problem_dirs(root, min_files=args.min_files)
MainScan ==
    /\ pc = "main"
    /\ results' = find_problem_dirs(fs, dirs, args.min_files)
    /\ hist' = [hist EXCEPT !.scan = results']
    /\ pc' = "scanned"
    /\ UNCHANGED <<fs, dirs, args, mapping, dry_run, force, temp_map,
                   succeeded, failed, ret, exitcode, uuids>>

Exit(code) ==
    /\ exitcode' = code
    /\ pc' = "exit"
    /\ UNCHANGED <<fs, dirs, args, results, mapping, dry_run, force, temp_map,
                   succeeded, failed, ret, uuids, hist>>

\* if args.json: print the reports; return 0
MainJson ==
    /\ pc = "scanned"
    /\ args.json
    /\ Exit(0)

\* if not results: return 0
MainNothingFound ==
    /\ pc = "scanned"
    /\ ~args.json
    /\ results = <<>>
    /\ Exit(0)

\* if not args.rename: print the report; return 0
MainReport ==
    /\ pc = "scanned"
    /\ ~args.json
    /\ results # <<>>
    /\ ~args.rename
    /\ Exit(0)

\* rename mode, if not all_mappings: return 0
MainNoRenames ==
    /\ pc = "scanned"
    /\ ~args.json
    /\ results # <<>>
    /\ args.rename
    /\ PlanAll(fs, results, args.width) = <<>>
    /\ Exit(0)

\* rename mode: perform_renames(all_mappings, dry_run=args.dry_run,
\*                              force=args.force)
MainCallRenames ==
    /\ pc = "scanned"
    /\ ~args.json
    /\ results # <<>>
    /\ args.rename
    /\ PlanAll(fs, results, args.width) # <<>>
    /\ mapping' = PlanAll(fs, results, args.width)
    /\ dry_run' = args.dry_run
    /\ force' = args.force
    /\ pc' = "call"
    /\ UNCHANGED <<fs, dirs, args, results, temp_map, succeeded, failed, ret,
                   exitcode, uuids, hist>>

\* a slip: the failed pre-check is reported but the exit code is 0
MainPrecheckFailed_zero ==
    /\ pc = "raised"
    /\ Exit(0)

\* except Exception: print "Pre-check failed"; return 2
MainPrecheckFailed ==
    /\ pc = "raised"
    /\ Exit(2)

\* print "Renaming complete"; return 0
MainComplete ==
    /\ pc = "returned"
    /\ Exit(0)

\* the tool is run again on the tree the first run left, to report only
Rescan ==
    /\ pc = "exit"
    /\ results' = find_problem_dirs(fs, dirs, args.min_files)
    /\ pc' = "rescanned"
    /\ UNCHANGED <<fs, dirs, args, mapping, dry_run, force, temp_map,
                   succeeded, failed, ret, exitcode, uuids, hist>>

\* The command lines: every combination of the flags, --width absent or 3,
\* --min-files 2 or 3.
ArgChoices ==
    {a \in [json : BOOLEAN, rename : BOOLEAN, width : {NoWidth, 3},
            dry_run : BOOLEAN, force : BOOLEAN, min_files : {2, 3}] :
        (a.json \/ ~a.rename) => (~a.dry_run /\ ~a.force)}

\* The characters of the single-directory inputs: . 0 1 a
Alphabet == {Dot, 48, 49, 97}

\* every name over Alphabet of at most n characters that does not end in a dot
RECURSIVE Strings(_)
Strings(n) ==
    IF n = 0 THEN {<<>>}
    ELSE Strings(n - 1) \cup {Append(s, c) : s \in Strings(n - 1), c \in Alphabet}

LeafNames == {s \in Strings(MaxNameLen) : s # <<>> /\ s[Len(s)] # Dot}

InitRun ==
    /\ mapping = <<>>
    /\ dry_run = FALSE
    /\ force = FALSE
    /\ pc = "main"
    /\ temp_map = <<>>
    /\ succeeded = 0
    /\ failed = 0
    /\ ret = NoRet
    /\ uuids = 0
    /\ results = <<>>
    /\ exitcode = -1
    /\ hist = NoHist(fs, dirs)

\* A root with two subdirectories, at most MaxTreeFiles files over TreeNames
\* anywhere in the three, any command line.
InitTree ==
    /\ dirs = {Root, 1, 2}
    /\ fs \in {FsOf(F) : F \in UpTo(dirs \X TreeNames, MaxTreeFiles)}
    /\ args \in ArgChoices
    /\ InitRun

\* One directory of one or two files over LeafNames, renamed for real
\* without --force and without --width.
InitLeaf ==
    /\ dirs = {Root}
    /\ fs \in {FsOf({<<Root, a>>, <<Root, b>>}) : a, b \in LeafNames}
    /\ args \in {a \in ArgChoices :
                    /\ ~a.json /\ a.rename /\ ~a.dry_run /\ ~a.force
                    /\ a.width = NoWidth /\ a.min_files = 2}
    /\ InitRun

InitMain == InitTree \/ InitLeaf

NextMain ==
    \/ MainScan
    \/ MainJson
    \/ MainNothingFound
    \/ MainReport
    \/ MainNoRenames
    \/ MainCallRenames
    \/ PerformRenames
    \/ MainPrecheckFailed
    \/ MainComplete
    \/ Rescan

SpecMain == InitMain /\ [][NextMain]_vars

(***************************************************************************)
(* Properties of perform_renames, checked under Spec.                      *)
(***************************************************************************)
\* two entries of m have the same destination
SameDst(m) == \E j, k \in 1..Len(m) : j # k /\ m[j][2] = m[k][2]

SourcePaths(m) == {m[k][1] : k \in 1..Len(m)}

DstPaths(m) == {m[k][2] : k \in 1..Len(m)}

\* the call has changed nothing on disk
Untouched == fs = hist.entry.fs /\ dirs = hist.entry.dirs

\* a destination of m existed at the call and is not a source of m
ForeignDst(m) ==
    \E k \in 1..Len(m) :
        m[k][2] \in DOMAIN hist.entry.fs /\ m[k][2] \notin SourcePaths(m)

\* the paths that now hold what path p held when the call began
HoldersOf(p) == {q \in DOMAIN fs : fs[q] = hist.entry.fs[p]}

Ended == pc \in {"returned", "raised"}

\* C1: a mapping in which two entries have the same destination is refused
\* with the validation error, whatever dry_run and force are, and the file
\* system is as it was before the call: nothing renamed, no temporary name,
\* no destination or directory created.
C1_DuplicateDstRefused ==
    SameDst(mapping) =>
        /\ pc \in {"call", "raised"}
        /\ Untouched
        /\ pc = "raised" => ret.raised

W1_DuplicateDstRefused ==
    /\ pc = "raised"
    /\ SameDst(mapping)
    /\ \A k \in 1..Len(mapping) : mapping[k][1] \in DOMAIN fs
    /\ Cardinality(SourcePaths(mapping)) >= 2

\* C2: without force, in every state of the call every file that existed
\* when the call began and is not a source of the mapping is still there
\* with its content; and when a destination existed and is not a source the
\* call is refused before any rename.
C2_ForeignFilesKept ==
    ~force =>
        /\ \A p \in DOMAIN hist.entry.fs \ SourcePaths(mapping) :
               p \in DOMAIN fs /\ fs[p] = hist.entry.fs[p]
        /\ ForeignDst(mapping) => pc \in {"call", "raised"} /\ Untouched

W2_ForeignFilesKept ==
    /\ ~force
    /\ pc = "returned"
    /\ Len(mapping) >= 2
    /\ ret = Counts(Len(mapping), 0)
    /\ DOMAIN hist.entry.fs \ SourcePaths(mapping) # {}

\* C3: a live call in which no rename raises returns (len(mapping), 0) with
\* every source's content under its destination and no temporary name left,
\* swaps, cycles, chains and self-renames included; and in every state of
\* every call the content of each source that existed is still on disk.
C3_TwoPhaseCompletes ==
    /\ (pc = "returned" /\ ~dry_run /\ ~hist.oserror) =>
           /\ ret = Counts(Len(mapping), 0)
           /\ \A k \in 1..Len(mapping) :
                  /\ mapping[k][1] \in DOMAIN hist.entry.fs
                  /\ mapping[k][2] \in DOMAIN fs
                  /\ fs[mapping[k][2]] = hist.entry.fs[mapping[k][1]]
           /\ \A p \in DOMAIN fs : ~IsTempName(p[2])
    /\ \A p \in SourcePaths(mapping) \cap DOMAIN hist.entry.fs :
           HoldersOf(p) # {}

\* a swap or a longer cycle ran to the end
W3_TwoPhaseCompletes ==
    /\ pc = "returned"
    /\ ~dry_run
    /\ ~hist.oserror
    /\ Len(mapping) >= 2
    /\ DstPaths(mapping) = SourcePaths(mapping)
    /\ \A k \in 1..Len(mapping) : mapping[k][1] # mapping[k][2]

\* the entries whose temporary file is gone: renamed to the destination
Completed == {k \in 1..Len(temp_map) : temp_map[k][1] \notin DOMAIN fs}

\* C4: when a rename raises, the call returns (s, len(mapping) - s), s the
\* number of entries whose temp-to-destination rename completed (0 when
\* phase 1 failed); the completed entries are under their destinations, the
\* entries renamed in phase 1 only are still under their temporary names,
\* the others were not touched, and every source's content is under exactly
\* one of its original, temporary or destination name.
C4_FailureStops ==
    (pc = "returned" /\ hist.oserror) =>
        LET s == Cardinality(Completed)
        IN  /\ ret = Counts(s, Len(mapping) - s)
            /\ Completed = 1..s
            /\ Len(temp_map) < Len(mapping) => s = 0
            /\ \A k \in 1..Len(temp_map) :
                   IF k <= s
                   THEN fs[temp_map[k][2]] = hist.entry.fs[mapping[k][1]]
                   ELSE fs[temp_map[k][1]] = hist.entry.fs[mapping[k][1]]
            /\ \A p \in SourcePaths(mapping) \cap DOMAIN hist.entry.fs :
                   /\ Cardinality(HoldersOf(p)) = 1
                   /\ HoldersOf(p) \subseteq
                          {p} \cup {temp_map[k][1] : k \in
                                      {j \in 1..Len(temp_map) : mapping[j][1] = p}}
                              \cup {mapping[k][2] : k \in
                                      {j \in 1..Len(mapping) : mapping[j][1] = p}}
                   /\ (\A k \in 1..Len(temp_map) : mapping[k][1] # p) =>
                          HoldersOf(p) = {p}

\* phase 2 failed after one entry was completed and before the last
W4_FailureStops ==
    /\ pc = "returned"
    /\ hist.oserror
    /\ succeeded >= 1
    /\ succeeded < Len(temp_map)
    /\ ret = Counts(succeeded, Len(mapping) - succeeded)

\* C5 as stated: with dry_run set nothing on disk changes and the call
\* returns (0, 0), never an error, for any mapping and any force.
C5_DryRunNeverRaises ==
    dry_run =>
        /\ Untouched
        /\ pc # "raised"
        /\ pc = "returned" => ret = Counts(0, 0)

\* C5 amended: with dry_run set nothing on disk changes for any mapping and
\* any force; the call returns (0, 0) when the mapping passes the pre-flight
\* validation, and raises the validation error when two destinations are
\* the same or, without force, a destination exists that is not a source.
C5_DryRunPure ==
    dry_run =>
        /\ Untouched
        /\ pc \in {"call", "returned", "raised"}
        /\ pc = "returned" => ret = Counts(0, 0)
        /\ Ended =>
               (pc = "raised" <=>
                    SameDst(mapping) \/ (~force /\ ForeignDst(mapping)))

W5_DryRunPure ==
    /\ dry_run
    /\ pc = "returned"
    /\ Len(mapping) >= 2
    /\ SourcePaths(mapping) \subseteq DOMAIN fs
    /\ DstPaths(mapping) \cap DOMAIN fs = {}

\* the first of two calls was live and renamed every entry
FirstRunComplete ==
    /\ hist.calls = 2
    /\ hist.prev[1].pc = "returned"
    /\ ~hist.prev[1].oserror
    /\ hist.prev[1].ret = Counts(Len(mapping), 0)

\* C9 as stated: after a fully successful run, a second run of the same
\* mapping (no rename refused by the operating system) changes nothing or
\* fails with an error or a non-zero failed count, and leaves every
\* destination with the content the first run put there.
C9_SecondRunKeepsFiles ==
    (FirstRunComplete /\ Ended /\ ~hist.fault) =>
        /\ fs = hist.prev[1].fs \/ pc = "raised" \/ ret.value[2] > 0
        /\ \A k \in 1..Len(mapping) :
               /\ mapping[k][2] \in DOMAIN fs
               /\ fs[mapping[k][2]] = hist.prev[1].fs[mapping[k][2]]

\* C9 amended: when no destination of the mapping is also one of its
\* sources, the second run changes nothing in any of its states, for every
\* force and every order of the entries: without force it raises the
\* validation error, with force it returns (0, len(mapping)); every
\* destination keeps the content the first run put there.
C9_SecondRunDisjoint ==
    (FirstRunComplete /\ DstPaths(mapping) \cap SourcePaths(mapping) = {}) =>
        /\ fs = hist.prev[1].fs
        /\ dirs = hist.entry.dirs
        /\ \A k \in 1..Len(mapping) :
               /\ mapping[k][2] \in DOMAIN fs
               /\ fs[mapping[k][2]] = hist.init[mapping[k][1]]
        /\ pc = "raised" => ~force /\ mapping # <<>>
        /\ pc = "returned" =>
               /\ ret = Counts(0, Len(mapping))
               /\ mapping # <<>> => force

W9_SecondRunDisjoint ==
    /\ FirstRunComplete
    /\ DstPaths(mapping) \cap SourcePaths(mapping) = {}
    /\ Len(mapping) >= 2
    /\ force
    /\ pc = "returned"

(***************************************************************************)
(* Properties of analyze_dir and main, checked under SpecMain.             *)
(***************************************************************************)
\* the non-hidden files of d whose stem holds a digit run
Numbered(f, d) ==
    {p \in FilesIn(f, d) : ~IsHidden(p[2]) /\ HasToken(Stem(p[2]))}

ValueOf(p) == IntOf(Token(Stem(p[2])))

TokenLen(p) == Len(Token(Stem(p[2])))

ValuesIn(f, d) == {ValueOf(p) : p \in Numbered(f, d)}

\* the number of decimal digits of n
DigitsOf(n) == CHOOSE k \in 1..12 : (k = 1 \/ 10 ^ (k - 1) <= n) /\ n < 10 ^ k

\* the values are exactly the range from the least to the greatest
ContiguousRange(f, d) ==
    LET vals == ValuesIn(f, d) IN vals = MinOf(vals)..MaxOf(vals)

\* some token is not as long as the greatest value's decimal form
NotAllPadded(f, d) ==
    LET width == DigitsOf(MaxOf(ValuesIn(f, d)))
    IN  \E p \in Numbered(f, d) : TokenLen(p) # width

\* two files stand in one order by name, in the other by (value, name)
OrdersDiffer(f, d) ==
    \E p, q \in Numbered(f, d) :
        /\ StrLess(p[2], q[2])
        /\ KeyLess(<<ValueOf(q), q[2]>>, <<ValueOf(p), p[2]>>)

\* two different files of d carry the same value
DuplicateValues(f, d) ==
    \E p, q \in Numbered(f, d) : p # q /\ ValueOf(p) = ValueOf(q)

ReportsOf(d) == {results[k] : k \in {j \in 1..Len(results) : results[j].dir = d}}

Scanned == pc \in {"scanned", "rescanned"}

\* C7: for a leaf directory with at least min_files numbered files,
\* analyze_dir reports it exactly when the set of the values is the range
\* [min, max], not every token has digits(max) characters, and the order by
\* name differs from the order by (value, name); the report's count, min,
\* max and desired_width are those of the numbered files.
C7_ReportIffBroken ==
    Scanned =>
        \A d \in dirs :
            (is_leaf_dir(fs, dirs, d)
                /\ Cardinality(Numbered(fs, d)) >= args.min_files) =>
                /\ ReportsOf(d) # {} <=>
                       /\ ContiguousRange(fs, d)
                       /\ NotAllPadded(fs, d)
                       /\ OrdersDiffer(fs, d)
                /\ \A r \in ReportsOf(d) :
                       LET vals == ValuesIn(fs, d)
                       IN  /\ r.count = Cardinality(Numbered(fs, d))
                           /\ r.min = MinOf(vals)
                           /\ r.max = MaxOf(vals)
                           /\ r.desired_width = DigitsOf(r.max)

\* a directory holding 9 and 10 is reported with width 2
W7_ReportIffBroken ==
    /\ pc = "scanned"
    /\ \E d \in dirs :
           /\ ReportsOf(d) # {}
           /\ \A r \in ReportsOf(d) :
                  r.min = 9 /\ r.max = 10 /\ r.desired_width = 2

\* C8 as stated: a directory in which two different files carry the same
\* value is never reported.
C8_DuplicatesNeverReported ==
    Scanned => \A d \in dirs : DuplicateValues(fs, d) => ReportsOf(d) = {}

\* the first run renamed for real with the default width and every rename
\* it planned was done
RenamesApplied ==
    /\ pc = "rescanned"
    /\ ~args.json
    /\ args.rename
    /\ ~args.dry_run
    /\ args.width = NoWidth
    /\ exitcode = 0
    /\ mapping # <<>> => ret = Counts(Len(mapping), 0)

\* C6 as stated: after the rename mode has padded the files of the reported
\* directories (none of which held two files of the same value), scanning
\* again reports none of them.
C6_RoundTrip ==
    RenamesApplied =>
        \A k \in 1..Len(hist.scan) :
            ~DuplicateValues(hist.init, hist.scan[k].dir) =>
                ReportsOf(hist.scan[k].dir) = {}

InCall == pc \in {"call", "phase1", "phase2", "returned", "raised"}

\* the renames the rename mode plans for directory d
PlannedFor(f, d, width_arg) ==
    LET width == IF width_arg # NoWidth THEN width_arg
                 ELSE DigitsOf(MaxOf(ValuesIn(f, d)))
    IN  {m \in {<<p, make_new_name(p, width)>> : p \in Numbered(f, d)} :
            m[1] # m[2]}

\* C10: main calls perform_renames once, in rename mode, with the planned
\* renames of all reported directories in one mapping; it returns 2 exactly
\* when the pre-flight validation of that mapping raises, and then no file
\* of any directory was renamed; in every other case (--json, nothing
\* reported, report only, nothing to rename, dry run, renames done or
\* stopped) it returns 0.
C10_ExitCodes ==
    /\ exitcode \in {-1, 0, 2}
    /\ InCall =>
           /\ hist.calls = 1
           /\ ~args.json /\ args.rename
           /\ dry_run = args.dry_run /\ force = args.force
           /\ Range(mapping) =
                  UNION {PlannedFor(hist.init, hist.scan[k].dir, args.width) :
                            k \in 1..Len(hist.scan)}
           /\ Cardinality(Range(mapping)) = Len(mapping)
    /\ pc \in {"exit", "rescanned"} =>
           /\ exitcode # -1
           /\ exitcode = 2 <=>
                  /\ ~args.json /\ args.rename /\ mapping # <<>>
                  /\ SameDst(mapping) \/ (~args.force /\ ForeignDst(mapping))
           /\ exitcode = 2 => ret.raised /\ fs = hist.init /\ Untouched

\* main returned 2 for a batch over two directories
W10_ExitCodes ==
    /\ pc = "exit"
    /\ exitcode = 2
    /\ \E j, k \in 1..Len(mapping) : mapping[j][1][1] # mapping[k][1][1]

=============================================================================
